---- MODULE Spec2Model ----
(***************************************************************************)
(* Model of config/log_config.py: the path resolver (read base, write      *)
(* base, credentials/data/logs paths) and the logging bootstrap            *)
(* (configurar_logging, obtener_ruta_archivo_log).                         *)
(*                                                                         *)
(* A path is a sequence of tokens; the token "/" is the separator, every   *)
(* other token is a name.  "/proj/logs/" is <<"/","proj","/","logs","/">>  *)
(* and the empty string is << >>.  The os.path functions are modelled on   *)
(* that representation as posixpath computes them.                         *)
(***************************************************************************)
EXTENDS Integers, Sequences, FiniteSets, TLC

VARIABLES
    entorno,                  \* what the runtime exposes at import time (never changes)
    RUTA_BASE_LECTURA,        \* line 100
    RUTA_BASE_ESCRITURA,      \* line 101
    nivelLectura,             \* which tier of the fallback chain produced line 100's value
    avisosRuta,               \* lines the path resolver printed while the module loaded
    _configuracion_realizada, \* line 18
    _ruta_archivo_log_actual, \* line 19
    handlers,                 \* logging.getLogger().handlers
    nivelRaiz,                \* level of the root logger
    directorios,              \* directories that exist on disk
    siguienteId,              \* identity of the next handler object created
    llamadas,                 \* configurar_logging calls made so far
    ultima,                   \* what the last operation did (observation only)
    vigentes,                 \* options of the last call that got past the guard
    rpa,                      \* main.py: where the script is and what it holds
    mutadoras                 \* calls that changed the sinks, the threshold or the path

vars == <<entorno, RUTA_BASE_LECTURA, RUTA_BASE_ESCRITURA, nivelLectura,
          avisosRuta, _configuracion_realizada, _ruta_archivo_log_actual, handlers,
          nivelRaiz, directorios, siguienteId, llamadas, ultima, vigentes, rpa, mutadoras>>

(***************************************************************************)
(* Bounds of the model.                                                    *)
(***************************************************************************)
MaxLlamadas == 2     \* configurar_logging calls in one process
MaxViejos == 2       \* handlers attached to the root logger before the first call

(***************************************************************************)
(* Paths: os.path on token sequences.                                      *)
(***************************************************************************)
SEP == "/"
None == <<"<None>">>          \* Python's None where a path is expected
VACIA == << >>                \* the empty string ""

RECURSIVE UltimoSep(_, _)
\* p.rfind('/') + 1, searching down from position i
UltimoSep(p, i) == IF i = 0 THEN 0 ELSE IF p[i] = SEP THEN i ELSE UltimoSep(p, i - 1)

RECURSIVE QuitarSepFinal(_)
\* head.rstrip('/')
QuitarSepFinal(p) ==
    IF p # << >> /\ p[Len(p)] = SEP THEN QuitarSepFinal(SubSeq(p, 1, Len(p) - 1)) ELSE p

SoloSep(p) == \A i \in 1..Len(p) : p[i] = SEP

EsAbsoluta(p) == p # << >> /\ p[1] = SEP

\* posixpath.dirname
Dirname(p) ==
    LET head == SubSeq(p, 1, UltimoSep(p, Len(p)))
    IN IF head # << >> /\ ~SoloSep(head) THEN QuitarSepFinal(head) ELSE head

\* posixpath.basename
Basename(p) == SubSeq(p, UltimoSep(p, Len(p)) + 1, Len(p))

\* posixpath.join(a, b): an absolute b discards a
Join(a, b) ==
    IF EsAbsoluta(b) THEN b
    ELSE IF a = << >> \/ a[Len(a)] = SEP THEN a \o b
    ELSE a \o <<SEP>> \o b

Join3(a, b, c) == Join(Join(a, b), c)

RECURSIVE Reducir(_, _, _)
\* the component loop of posixpath.normpath: "." is dropped, ".." pops
Reducir(p, i, acc) ==
    IF i > Len(p) THEN acc
    ELSE IF p[i] = SEP \/ p[i] = "." THEN Reducir(p, i + 1, acc)
    ELSE IF p[i] = ".." THEN
        IF acc # << >> /\ acc[Len(acc)] # ".." THEN Reducir(p, i + 1, SubSeq(acc, 1, Len(acc) - 1))
        ELSE IF EsAbsoluta(p) THEN Reducir(p, i + 1, acc)
        ELSE Reducir(p, i + 1, Append(acc, ".."))
    ELSE Reducir(p, i + 1, Append(acc, p[i]))

RECURSIVE Unir(_)
Unir(cs) == IF cs = << >> THEN << >>
            ELSE IF Len(cs) = 1 THEN cs
            ELSE <<cs[1], SEP>> \o Unir(Tail(cs))

\* posixpath.normpath
Normpath(p) ==
    LET cs == Reducir(p, 1, << >>)
    IN IF EsAbsoluta(p) THEN <<SEP>> \o Unir(cs)
       ELSE IF cs = << >> THEN <<".">> ELSE Unir(cs)

\* posixpath.abspath with the process's working directory
Abspath(p, cwd) == Normpath(IF EsAbsoluta(p) THEN p ELSE Join(cwd, p))

\* the names of a normalised path, separators dropped
Componentes(p) == Reducir(p, 1, << >>)

EsPrefijo(a, b) == Len(a) <= Len(b) /\ SubSeq(b, 1, Len(a)) = a

\* p names raiz itself or something below it
BajoRaiz(p, raiz) ==
    EsAbsoluta(p) /\ EsAbsoluta(raiz) /\ EsPrefijo(Componentes(raiz), Componentes(p))

\* p names an entry directly inside directory d
DirectamenteEn(p, d) ==
    /\ EsAbsoluta(p) /\ EsAbsoluta(d)
    /\ Len(Componentes(p)) = Len(Componentes(d)) + 1
    /\ EsPrefijo(Componentes(d), Componentes(p))

(***************************************************************************)
(* The runtime the module is imported in.                                  *)
(***************************************************************************)
P(a, b) == <<SEP, a, SEP, b>>
ARCHIVO_MODULO == <<SEP, "proj", SEP, "config", SEP, "log_config.py">>  \* this module's __file__
MEIPASS == P("tmp", "_MEI")                   \* sys._MEIPASS of a bundle
EJECUTABLE == <<SEP, "opt", SEP, "app", SEP, "rpa.exe">>   \* sys.executable of a bundle
SIN_ARCHIVO == <<"<string>">>                 \* co_filename of code that has no file

\* a frame of the call stack: its globals' __file__ (when present) and its code's file
Marco(tiene, file, co) == [tieneFile |-> tiene, file |-> file, co |-> co]

MARCO_MAIN == Marco(TRUE, <<SEP, "proj", SEP, "scripts", SEP, "main.py">>,
                    <<SEP, "proj", SEP, "scripts", SEP, "main.py">>)
MARCO_RAIZ == Marco(TRUE, <<SEP, "srv", SEP, "run.py">>, <<SEP, "srv", SEP, "run.py">>)
MARCO_REL == Marco(TRUE, <<"scripts", SEP, "run.py">>, <<"scripts", SEP, "run.py">>)
MARCO_NONE == Marco(TRUE, None, SIN_ARCHIVO)      \* globals hold __file__ = None
MARCO_SIN == Marco(FALSE, None, SIN_ARCHIVO)      \* interactive frame, no __file__

PilasExternas ==
    { << >>, <<MARCO_MAIN>>, <<MARCO_RAIZ>>, <<MARCO_REL>>, <<MARCO_NONE>>,
      <<MARCO_SIN>>, <<MARCO_SIN, MARCO_MAIN>>, <<MARCO_SIN, MARCO_NONE>> }

Cwds == { P("proj", "scripts"), <<SEP, "work">> }

Entorno(frozen, meipass, fileDef, soporta, externos, co, cwd) ==
    [frozen |-> frozen, tieneMeipass |-> meipass, fileDef |-> fileDef,
     soportaFrames |-> soporta, externos |-> externos, coModulo |-> co, cwd |-> cwd]

\* the default runtime of each execution mode: __file__ defined, CPython frames
EntornosBase ==
    { Entorno(f, m, TRUE, TRUE, <<MARCO_MAIN>>, ARCHIVO_MODULO, <<SEP, "work">>) :
        f \in BOOLEAN, m \in BOOLEAN }

\* runtimes in which the module's own __file__ is not defined
EntornosSinFile ==
    { Entorno(f, f, FALSE, s, ext, co, cwd) :
        f \in BOOLEAN, s \in BOOLEAN, ext \in PilasExternas,
        co \in {ARCHIVO_MODULO, SIN_ARCHIVO}, cwd \in Cwds }

(***************************************************************************)
(* Path resolver, lines 24-143.                                            *)
(***************************************************************************)
\* line 24
IS_BUNDLED == entorno.frozen /\ entorno.tieneMeipass

\* a frame running code of this module: its globals are the module's globals
MarcoPropio == Marco(entorno.fileDef, ARCHIVO_MODULO, entorno.coModulo)

\* a stack lookup at a fixed depth instead of the walk of lines 54-55
RetrocederFijo(pila, i) == IF Len(pila) >= 3 THEN 3 ELSE Len(pila)

RECURSIVE Retroceder(_, _)
\* lines 54-55: walk outward while the frame has a caller and its globals lack __file__
Retroceder(pila, i) ==
    IF i < Len(pila) /\ ~pila[i].tieneFile THEN Retroceder(pila, i + 1) ELSE i

\* lines 49-75: the call-stack tiers; pila[1] is the frame of the function itself
RutaPorPila(pila) ==
    IF ~entorno.soportaFrames
    THEN \* inspect.currentframe() is None: line 62 raises, line 75 answers
         [ruta |-> Abspath(<<".">>, entorno.cwd), nivel |-> "cwd", avisos |-> 0]
    ELSE LET i == Retroceder(pila, 1)
             caller_file == IF pila[i].tieneFile THEN pila[i].file
                            ELSE (IF Len(pila) >= 2 THEN pila[2] ELSE pila[1]).co
         IN IF caller_file = None
            THEN \* os.path.abspath(None) raises, line 75 answers
                 [ruta |-> Abspath(<<".">>, entorno.cwd), nivel |-> "cwd", avisos |-> 0]
            ELSE LET directorio_script_original == Dirname(Abspath(caller_file, entorno.cwd))
                 IN IF Basename(directorio_script_original) = <<"scripts">>
                    THEN [ruta |-> Abspath(Join(directorio_script_original, <<"..">>), entorno.cwd),
                          nivel |-> "scripts", avisos |-> 0]
                    ELSE [ruta |-> directorio_script_original, nivel |-> "pila", avisos |-> 0]

\* lines 30-83; pila is the stack at the call, innermost frame first
_obtener_ruta_base_lectura(pila) ==
    IF IS_BUNDLED
    THEN [ruta |-> MEIPASS, nivel |-> "bundle", avisos |-> 0]
    ELSE LET r == IF entorno.fileDef
                  THEN [ruta |-> Abspath(Join(Dirname(Abspath(ARCHIVO_MODULO, entorno.cwd)),
                                              <<"..">>), entorno.cwd),
                        nivel |-> "modulo", avisos |-> 0]
                  ELSE RutaPorPila(pila)
         IN IF r.ruta = None   \* line 79
            THEN [ruta |-> Abspath(<<".">>, entorno.cwd), nivel |-> "cwd", avisos |-> 1]
            ELSE r

\* lines 85-97; pila is the stack at the call, innermost frame first
_obtener_ruta_base_escritura(pila) ==
    IF IS_BUNDLED
    THEN [ruta |-> Dirname(EJECUTABLE), nivel |-> "bundle", avisos |-> 0]
    ELSE _obtener_ruta_base_lectura(<<MarcoPropio>> \o pila)

\* the stack while the module body runs: the body's frame, then the importer's frames
PilaModulo == <<MarcoPropio>> \o entorno.externos

\* the credentials file looked up under the read base in every mode
get_credentials_pathLectura ==
    Join3(RUTA_BASE_LECTURA, <<"config">>, <<"credenciales.json">>)

\* lines 107-124
get_credentials_path ==
    Join3(IF IS_BUNDLED THEN RUTA_BASE_ESCRITURA ELSE RUTA_BASE_LECTURA,
          <<"config">>, <<"credenciales.json">>)

\* lines 127-134
get_data_path(relative_path_inside_data) ==
    Join3(RUTA_BASE_ESCRITURA, <<"data">>, relative_path_inside_data)

\* lines 136-143
get_logs_path(relative_path_inside_logs) ==
    Join3(RUTA_BASE_ESCRITURA, <<"logs">>, relative_path_inside_logs)

\* suffixes a caller passes: empty, relative (plain, nested, climbing), absolute
Sufijos ==
    { VACIA, <<"descargas_temp">>, <<"a", SEP, "b.csv">>, <<"..", SEP, "x">>,
      <<SEP, "etc", SEP, "x">> }

(***************************************************************************)
(* The logging package, as far as configurar_logging uses it.              *)
(***************************************************************************)
DEBUG == 10
INFO == 20
WARNING == 30
CRITICAL == 50

\* a level argument as the caller wrote it: an int, or a str naming a level
NivelInt(n) == [tipo |-> "int", n |-> n, s |-> ""]
NivelStr(s) == [tipo |-> "str", n |-> 0, s |-> s]

NombresDeNivel == {"DEBUG", "INFO", "WARNING", "ERROR", "CRITICAL", "NOTSET"}
ValorDeNombre(s) ==
    CASE s = "DEBUG" -> DEBUG [] s = "INFO" -> INFO [] s = "WARNING" -> WARNING
      [] s = "ERROR" -> 40 [] s = "CRITICAL" -> CRITICAL [] OTHER -> 0

\* logging._checkLevel: an int is taken as is, a str must name a level
CheckLevel(nivel) ==
    IF nivel.tipo = "int" THEN [ok |-> TRUE, n |-> nivel.n]
    ELSE IF nivel.s \in NombresDeNivel THEN [ok |-> TRUE, n |-> ValorDeNombre(nivel.s)]
    ELSE [ok |-> FALSE, n |-> 0]

\* a handler object
Handler(id, tipo, flujo, nivel, ruta, rot, cierreFalla, por) ==
    [id |-> id, tipo |-> tipo, flujo |-> flujo, nivel |-> nivel, ruta |-> ruta,
     rotacion |-> rot, cierreFalla |-> cierreFalla, creadoPor |-> por]

\* a handler someone attached to the root logger before configurar_logging ran
Viejo(id, cierreFalla) == Handler(id, "viejo", "otro", 0, None, FALSE, cierreFalla, 0)

RECURSIVE ViejosDe(_, _)
\* the lists of n old handlers, ids 1..n; each may or may not fail to close
ViejosDe(n, hs) ==
    IF Len(hs) = n THEN {hs}
    ELSE UNION { ViejosDe(n, Append(hs, Viejo(Len(hs) + 1, f))) : f \in BOOLEAN }

ListasDeViejos == UNION { ViejosDe(n, << >>) : n \in 0..MaxViejos }

SinHandler(hs, id) == SelectSeq(hs, LAMBDA h : h.id # id)

\* where a record of level nivel, logged through a logger below root, is written
Destinos(hs, raiz, nivel) ==
    IF nivel < raiz THEN {}
    ELSE IF Len(hs) = 0 THEN (IF nivel >= WARNING THEN {"stderr"} ELSE {})  \* lastResort
    ELSE { hs[i].flujo : i \in { j \in 1..Len(hs) : nivel >= hs[j].nivel } }

\* Logger.log on a named logger (no handler is ever added)
Emitir(s, logger, nivel) ==
    [s EXCEPT !.registros = Append(@, [logger |-> logger, nivel |-> nivel,
                                       destinos |-> Destinos(s.h, s.raiz, nivel)])]

\* logging.critical(): the module-level function runs basicConfig() first when
\* the root logger has no handler, which attaches a stderr handler
EmitirPorModulo(s, nivel) ==
    LET s1 == IF Len(s.h) = 0
              THEN [s EXCEPT !.h = <<Handler(s.sid, "basico", "stderr", 0, None,
                                             FALSE, FALSE, s.num)>>,
                             !.sid = @ + 1]
              ELSE s
    IN Emitir(s1, "root", nivel)

\* every ancestor directory of p, p included (os.makedirs creates them all)
Ancestros(p) ==
    LET cs == Componentes(p)
    IN { <<SEP>> \o Unir(SubSeq(cs, 1, k)) : k \in 0..Len(cs) }

(***************************************************************************)
(* configurar_logging, lines 150-272.  The steps work on a record s of the *)
(* logging state: h the root logger's handlers, raiz its level, ruta and   *)
(* flag the module's two globals, dirs the directories on disk, sid the    *)
(* next handler identity, num the number of this call, impresos the        *)
(* print() calls made and registros the log records emitted by the call.   *)
(***************************************************************************)
Opciones(nombre, nArch, nCons, rot, cons, arch) ==
    [nombre_archivo_log |-> nombre, nivel_archivo |-> nArch, nivel_consola |-> nCons,
     usar_rotacion |-> rot, log_a_consola |-> cons, log_a_archivo |-> arch]

RECURSIVE LimpiarDesde(_, _, _)
\* lines 190-196, over the copy hs of the handler list taken at line 190:
\* removeHandler is skipped for a handler whose close() raised
LimpiarDesde(hs, i, s) ==
    IF i > Len(hs) THEN s
    ELSE IF hs[i].cierreFalla
         THEN LimpiarDesde(hs, i + 1, [s EXCEPT !.impresos = @ + 1])
         ELSE LimpiarDesde(hs, i + 1, [s EXCEPT !.h = SinHandler(@, hs[i].id)])

\* the cleanup of lines 190-196 without the setLevel of line 184
LimpiarHandlersSinUmbral(s) == LimpiarDesde(s.h, 1, s)

\* lines 183-196
LimpiarHandlers(s) == LimpiarDesde(s.h, 1, [s EXCEPT !.raiz = DEBUG])

\* lines 200-204; setLevel is not inside any try
ManejadorConsola(s, o) ==
    IF ~o.log_a_consola THEN [s |-> s, excepcion |-> FALSE]
    ELSE LET nivel == CheckLevel(o.nivel_consola)
             creado == [s EXCEPT !.sid = @ + 1]
         IN IF ~nivel.ok THEN [s |-> creado, excepcion |-> TRUE]
            ELSE [s |-> [creado EXCEPT !.h = Append(@, Handler(s.sid, "consola", "stdout",
                                                    nivel.n, None, FALSE, FALSE, s.num))],
                  excepcion |-> FALSE]

\* lines 239-242, 248: print() without file= writes to sys.stdout
FlujoDePrint == "stdout"

\* lines 237-244
FalloOSError(s) ==
    [s |-> EmitirPorModulo([s EXCEPT !.impresos = @ + 4], CRITICAL), falla |-> "OSError"]

\* lines 246-249
FalloInesperado(s) ==
    [s |-> EmitirPorModulo([s EXCEPT !.impresos = @ + 1], CRITICAL), falla |-> "Exception"]

\* the file sink set up with line 235 moved up to line 218: the path is recorded as
\* soon as it is built, before the handler exists
ManejadorArchivoRutaAntes(s, o, disco) ==
    LET s0 == [s EXCEPT !.ruta = None]
    IN IF ~o.log_a_archivo THEN [s |-> s0, falla |-> "no"]
       ELSE LET ruta_directorio_log == get_logs_path(VACIA)
                ruta_completa_archivo == Join(ruta_directorio_log, o.nombre_archivo_log)
                s1 == [s0 EXCEPT !.dirs = @ \cup Ancestros(ruta_directorio_log),
                                 !.ruta = ruta_completa_archivo]
                nivel == CheckLevel(o.nivel_archivo)
            IN IF disco = "makedirs" THEN FalloOSError(s0)
               ELSE IF disco = "open" \/ Dirname(Normpath(ruta_completa_archivo)) \notin s1.dirs
                    THEN FalloOSError(s1)
               ELSE IF ~nivel.ok THEN FalloInesperado([s1 EXCEPT !.sid = @ + 1])
               ELSE [s |-> [s1 EXCEPT !.h = Append(@, Handler(s.sid, "archivo", "archivo",
                                                 nivel.n, ruta_completa_archivo,
                                                 o.usar_rotacion, FALSE, s.num)),
                                      !.sid = @ + 1],
                     falla |-> "no"]

\* lines 207-249; disco is the failure the operating system answers with, if any
ManejadorArchivo(s, o, disco) ==
    LET s0 == [s EXCEPT !.ruta = None]
    IN IF ~o.log_a_archivo THEN [s |-> s0, falla |-> "no"]
       ELSE LET ruta_directorio_log == get_logs_path(VACIA)
                ruta_completa_archivo == Join(ruta_directorio_log, o.nombre_archivo_log)
                s1 == [s0 EXCEPT !.dirs = @ \cup Ancestros(ruta_directorio_log)]
                nivel == CheckLevel(o.nivel_archivo)
            IN IF disco = "makedirs" THEN FalloOSError(s0)
               ELSE IF disco = "open" \/ Dirname(Normpath(ruta_completa_archivo)) \notin s1.dirs
                    THEN FalloOSError(s1)
               ELSE IF ~nivel.ok THEN FalloInesperado([s1 EXCEPT !.sid = @ + 1])
               ELSE [s |-> [s1 EXCEPT !.h = Append(@, Handler(s.sid, "archivo", "archivo",
                                                 nivel.n, ruta_completa_archivo,
                                                 o.usar_rotacion, FALSE, s.num)),
                                      !.sid = @ + 1,
                                      !.ruta = ruta_completa_archivo],
                     falla |-> "no"]

\* lines 253-272
FinalizarConfiguracion(s) ==
    Emitir(Emitir(Emitir(Emitir([s EXCEPT !.flag = TRUE],
        "ConfigLog", INFO), "ConfigLog", INFO), "ConfigLog", INFO), "ConfigLog", INFO)

\* lines 177-180
YaConfigurado(s) == s.flag

\* lines 174-272: the state the call leaves and how it ended
configurar_logging(s, o, disco) ==
    IF YaConfigurado(s)
    THEN [s |-> Emitir(s, "ConfigLog", WARNING), resultado |-> "retorno",
          guardia |-> TRUE, falla |-> "no"]
    ELSE LET c == ManejadorConsola(LimpiarHandlers(s), o)
         IN IF c.excepcion
            THEN [s |-> c.s, resultado |-> "excepcion", guardia |-> FALSE, falla |-> "no"]
            ELSE LET a == ManejadorArchivo(c.s, o, disco)
                 IN [s |-> FinalizarConfiguracion(a.s), resultado |-> "retorno",
                     guardia |-> FALSE, falla |-> a.falla]

\* lines 277-282
obtener_ruta_archivo_log == _ruta_archivo_log_actual

(***************************************************************************)
(* The process: the module is imported (Init), then its functions are      *)
(* called in any order.                                                    *)
(***************************************************************************)
NombresDeLog ==
    { <<"app.log">>, <<"sub", SEP, "x.log">>, <<SEP, "tmp", SEP, "x.log">> }

\* the option sets tried; an option a disabled sink never reads keeps its default, and
\* so do the file options of a call whose console level is rejected at line 203; the
\* file name and the rotation are varied under the int console level only
OpcionesPosibles ==
    { Opciones(nombre, nArch, nCons, rot, cons, arch) :
        nombre \in NombresDeLog,
        nArch \in {NivelInt(DEBUG), NivelInt(DEBUG - 5), NivelStr("nope")},
        nCons \in {NivelInt(INFO), NivelStr("WARNING"), NivelStr("info")},
        rot \in BOOLEAN, cons \in BOOLEAN, arch \in BOOLEAN }

Relevantes ==
    { o \in OpcionesPosibles :
        /\ (o.log_a_consola /\ o.nivel_consola = NivelStr("info")) =>
              /\ o.nombre_archivo_log = <<"app.log">>
              /\ o.nivel_archivo = NivelInt(DEBUG)
              /\ o.usar_rotacion
        /\ (o.nivel_archivo = NivelInt(DEBUG - 5) \/ o.nivel_consola = NivelStr("WARNING")) =>
              o.nombre_archivo_log = <<"app.log">> /\ o.usar_rotacion
        /\ ~o.log_a_consola => o.nivel_consola = NivelInt(INFO)
        /\ ~o.log_a_archivo => /\ o.nombre_archivo_log = <<"app.log">>
                               /\ o.nivel_archivo = NivelInt(DEBUG)
                               /\ o.usar_rotacion }

FallosDeDisco == {"ninguno", "makedirs", "open"}

\* the state once the module body has run, in one of the runtimes entornos, with one
\* of the handler lists viejos already attached, logs/sub existing or not as in subs
InitCon(entornos, viejos, subs) ==
    /\ entorno \in entornos
    /\ LET lectura == _obtener_ruta_base_lectura(<<MarcoPropio>> \o PilaModulo)   \* line 100
           escritura == _obtener_ruta_base_escritura(<<MarcoPropio>> \o PilaModulo) \* line 101
       IN /\ RUTA_BASE_LECTURA = lectura.ruta
          /\ RUTA_BASE_ESCRITURA = escritura.ruta
          /\ nivelLectura = lectura.nivel
          /\ avisosRuta = lectura.avisos + (IF IS_BUNDLED THEN 0 ELSE escritura.avisos)
          /\ \E sub \in subs :
                /\ directorios =
                      Ancestros(escritura.ruta) \cup Ancestros(P("tmp", "_MEI"))
                      \cup (IF sub THEN Ancestros(Join3(escritura.ruta, <<"logs">>, <<"sub">>))
                            ELSE {})
    /\ _configuracion_realizada = FALSE                                          \* line 18
    /\ _ruta_archivo_log_actual = None                                           \* line 19
    /\ handlers \in viejos
    /\ nivelRaiz = WARNING
    /\ siguienteId = Len(handlers) + 1
    /\ llamadas = 0
    /\ mutadoras = 0
    /\ ultima = [op |-> "import"]
    /\ vigentes = [num |-> 0, log_a_consola |-> FALSE, log_a_archivo |-> FALSE,
                   nivel_consola |-> NivelInt(INFO), nivel_archivo |-> NivelInt(DEBUG)]
    /\ rpa = [pc |-> "inicio", importado |-> FALSE, driver |-> "None",
                navegador |-> FALSE, quit |-> FALSE, proceso_exitoso |-> FALSE,
                pendiente |-> "", salida |-> "", motivo |-> ""]

Init == InitCon(EntornosBase, ListasDeViejos, BOOLEAN)

\* the import alone, in every runtime the root detection distinguishes
InitRutas == InitCon(EntornosBase \cup EntornosSinFile, {<< >>}, {FALSE})

\* a call of configurar_logging with options o, the disk answering with disco
ConfigurarLogging ==
    /\ llamadas < MaxLlamadas
    /\ \E o \in Relevantes, disco \in FallosDeDisco :
        /\ ~o.log_a_archivo => disco = "ninguno"
        /\ LET antes == [h |-> handlers, ruta |-> _ruta_archivo_log_actual,
                          flag |-> _configuracion_realizada, raiz |-> nivelRaiz]
                r == configurar_logging(
                        [h |-> handlers, ruta |-> _ruta_archivo_log_actual,
                         flag |-> _configuracion_realizada, raiz |-> nivelRaiz,
                         dirs |-> directorios, sid |-> siguienteId, num |-> llamadas + 1,
                         impresos |-> 0, registros |-> << >>], o, disco)
            IN /\ handlers' = r.s.h
               /\ _ruta_archivo_log_actual' = r.s.ruta
               /\ _configuracion_realizada' = r.s.flag
               /\ nivelRaiz' = r.s.raiz
               /\ directorios' = r.s.dirs
               /\ siguienteId' = r.s.sid
               /\ llamadas' = llamadas + 1
               /\ mutadoras' = IF r.s.h # handlers \/ r.s.raiz # nivelRaiz
                                  \/ r.s.ruta # _ruta_archivo_log_actual
                               THEN mutadoras + 1 ELSE mutadoras
               /\ ultima' = [op |-> "configurar_logging", num |-> llamadas + 1,
                             resultado |-> r.resultado, guardia |-> r.guardia,
                             falla |-> r.falla,
                             disco |-> IF r.guardia THEN "ninguno" ELSE disco,
                             log_a_consola |-> ~r.guardia /\ o.log_a_consola,
                             log_a_archivo |-> ~r.guardia /\ o.log_a_archivo,
                             impresos |-> r.s.impresos, registros |-> r.s.registros,
                             antes |-> antes]
               /\ vigentes' = IF r.guardia THEN vigentes
                               ELSE [num |-> llamadas + 1,
                                     log_a_consola |-> o.log_a_consola,
                                     log_a_archivo |-> o.log_a_archivo,
                                     nivel_consola |-> o.nivel_consola,
                                     nivel_archivo |-> o.nivel_archivo]
    /\ UNCHANGED <<entorno, RUTA_BASE_LECTURA, RUTA_BASE_ESCRITURA, nivelLectura, avisosRuta,
                   rpa>>

sinCambioLogging ==
    UNCHANGED <<entorno, RUTA_BASE_LECTURA, RUTA_BASE_ESCRITURA, nivelLectura, avisosRuta,
                _configuracion_realizada, _ruta_archivo_log_actual, handlers, nivelRaiz,
                directorios, siguienteId, llamadas, vigentes, rpa, mutadoras>>

\* a call of obtener_ruta_archivo_log()
ObtenerRutaArchivoLog ==
    /\ ultima.op # "obtener_ruta_archivo_log"
    /\ ultima' = [op |-> "obtener_ruta_archivo_log", valor |-> obtener_ruta_archivo_log,
                  antes |-> [h |-> handlers, ruta |-> _ruta_archivo_log_actual,
                             flag |-> _configuracion_realizada, raiz |-> nivelRaiz]]
    /\ sinCambioLogging

\* the levels of the records the application logs: one below DEBUG, then standard ones
NivelesDeRegistro == {DEBUG - 5, DEBUG, INFO, CRITICAL}

\* the application logs a record through a named logger (logging.getLogger(__name__))
Registrar ==
    /\ llamadas >= 1
    /\ \E L \in NivelesDeRegistro :
          ultima' = [op |-> "log", nivel |-> L,
                     destinos |-> Destinos(handlers, nivelRaiz, L)]
    /\ sinCambioLogging

\* the path builders read only the two bases, which never change: they are exercised
\* before the first configurar_logging call
GetLogsPath ==
    /\ llamadas = 0
    /\ \E sufijo \in Sufijos :
          ultima' = [op |-> "get_logs_path", arg |-> sufijo, valor |-> get_logs_path(sufijo)]
    /\ sinCambioLogging

GetDataPath ==
    /\ llamadas = 0
    /\ \E sufijo \in Sufijos :
          ultima' = [op |-> "get_data_path", arg |-> sufijo, valor |-> get_data_path(sufijo)]
    /\ sinCambioLogging

GetCredentialsPath ==
    /\ llamadas = 0
    /\ ultima' = [op |-> "get_credentials_path", valor |-> get_credentials_path]
    /\ sinCambioLogging

Next ==
    \/ ConfigurarLogging
    \/ ObtenerRutaArchivoLog
    \/ GetLogsPath
    \/ GetDataPath
    \/ GetCredentialsPath

Spec == Init /\ [][Next]_vars

\* the application configures logging and logs records; at most one stale handler
InitRegistro == InitCon(EntornosBase, {<< >>} \cup ViejosDe(1, << >>), {FALSE})

NextRegistro ==
    \/ ConfigurarLogging
    \/ Registrar

SpecRegistro == InitRegistro /\ [][NextRegistro]_vars

NextRutas ==
    \/ GetLogsPath
    \/ GetDataPath
    \/ GetCredentialsPath

SpecRutas == InitRutas /\ [][NextRutas]_vars

(***************************************************************************)
(* scripts/main.py: the start of the script (lines 53-66) and              *)
(* ejecutar_flujo_rpa (lines 232-321), one action per step of the flow.    *)
(* rpa.pc is the step about to run; pendiente is what the function does    *)
(* once its finally block is over.                                         *)
(***************************************************************************)
\* line 60: configurar_logging(nombre_archivo_log=nombre_log_ejecucion), defaults else
OpcionesDeMain ==
    Opciones(<<"ejecucion_rpa.log">>, NivelInt(DEBUG), NivelInt(INFO), TRUE, TRUE, TRUE)

\* line 66: logging.basicConfig(level=logging.INFO, ...), a no-op when root has handlers
BasicConfig(s) ==
    IF Len(s.h) # 0 THEN s
    ELSE [s EXCEPT !.h = <<Handler(s.sid, "basico", "stderr", 0, None, FALSE, FALSE, 0)>>,
                   !.sid = @ + 1, !.raiz = INFO]

sinCambioRutas ==
    UNCHANGED <<entorno, RUTA_BASE_LECTURA, RUTA_BASE_ESCRITURA, nivelLectura, avisosRuta>>

sinCambioEnModulo ==
    /\ sinCambioRutas
    /\ UNCHANGED <<_configuracion_realizada, _ruta_archivo_log_actual, handlers, nivelRaiz,
                   directorios, siguienteId, llamadas, ultima, vigentes, mutadoras>>

\* lines 53-66: the import and the configuration, or the emergency logging
Arranque ==
    /\ rpa.pc = "inicio"
    /\ \E importa \in BOOLEAN, disco \in FallosDeDisco :
        LET s == [h |-> handlers, ruta |-> _ruta_archivo_log_actual,
                  flag |-> _configuracion_realizada, raiz |-> nivelRaiz,
                  dirs |-> directorios, sid |-> siguienteId, num |-> llamadas + 1,
                  impresos |-> 0, registros |-> << >>]
            r == IF importa THEN configurar_logging(s, OpcionesDeMain, disco).s
                 ELSE BasicConfig([s EXCEPT !.impresos = 1])
        IN /\ ~importa => disco = "ninguno"
           /\ handlers' = r.h
           /\ _ruta_archivo_log_actual' = r.ruta
           /\ _configuracion_realizada' = r.flag
           /\ nivelRaiz' = r.raiz
           /\ directorios' = r.dirs
           /\ siguienteId' = r.sid
           /\ llamadas' = IF importa THEN llamadas + 1 ELSE llamadas
           /\ mutadoras' = IF importa THEN mutadoras + 1 ELSE mutadoras
           /\ vigentes' = IF importa
                          THEN [num |-> llamadas + 1, log_a_consola |-> TRUE,
                                log_a_archivo |-> TRUE, nivel_consola |-> NivelInt(INFO),
                                nivel_archivo |-> NivelInt(DEBUG)]
                          ELSE vigentes
           /\ ultima' = [op |-> "arranque", importa |-> importa, disco |-> disco,
                         impresos |-> r.impresos, registros |-> r.registros]
           /\ rpa' = [rpa EXCEPT !.pc = "credenciales", !.importado = importa]
    /\ sinCambioRutas

\* the function is left: by return, or by an exception nobody in it caught
Salir(f, salida, motivo) == [f EXCEPT !.pc = "fin", !.salida = salida, !.motivo = motivo]

\* control reaches the finally block of lines 314-321
HaciaFinally(f, pendiente, motivo) ==
    [f EXCEPT !.pc = "finally", !.pendiente = pendiente, !.motivo = motivo]

\* lines 238-243; the names of line 54 are unbound when the import failed
CargarCredenciales ==
    /\ rpa.pc = "credenciales"
    /\ \E leido \in {"dict", "None", "PermissionError"} :
          rpa' = IF ~rpa.importado THEN Salir(rpa, "excepcion", "NameError")
                   ELSE CASE leido = "dict" -> [rpa EXCEPT !.pc = "directorio"]
                          [] leido = "None" -> Salir(rpa, "retorno", "sin_credenciales")
                          [] OTHER -> Salir(rpa, "excepcion", "credenciales")
    /\ sinCambioEnModulo

\* lines 245-261
PrepararDirectorio ==
    /\ rpa.pc = "directorio"
    /\ \E oserror \in BOOLEAN :
          rpa' = IF oserror THEN Salir(rpa, "retorno", "sin_directorio")
                   ELSE [rpa EXCEPT !.pc = "navegador", !.driver = "None",
                                      !.proceso_exitoso = FALSE]
    /\ sinCambioEnModulo

\* lines 264-270: install() or the constructor raises with driver still None;
\* maximize_window() raises with driver assigned
IniciarNavegador ==
    /\ rpa.pc = "navegador"
    /\ \E paso \in {"ok", "install", "Chrome", "maximize_window"} :
          rpa' = CASE paso = "ok" ->
                          [rpa EXCEPT !.pc = "login", !.driver = "WebDriver",
                                        !.navegador = TRUE]
                     [] paso = "maximize_window" ->
                          [rpa EXCEPT !.pc = "except", !.driver = "WebDriver",
                                        !.navegador = TRUE, !.motivo = paso]
                     [] OTHER -> [rpa EXCEPT !.pc = "except", !.motivo = paso]
    /\ sinCambioEnModulo

\* lines 273-274
Login ==
    /\ rpa.pc = "login"
    /\ \E ok \in BOOLEAN :
          rpa' = IF ok THEN [rpa EXCEPT !.pc = "fecha"]
                   ELSE [rpa EXCEPT !.pc = "except", !.motivo = "login"]
    /\ sinCambioEnModulo

\* lines 277-281: the return of line 281 is inside the try
ElegirFecha ==
    /\ rpa.pc = "fecha"
    /\ \E fecha \in {"elegida", "cancelada", "TclError"} :
          rpa' = CASE fecha = "elegida" -> [rpa EXCEPT !.pc = "descarga"]
                     [] fecha = "cancelada" -> HaciaFinally(rpa, "retorno", "cancelado")
                     [] OTHER -> [rpa EXCEPT !.pc = "except", !.motivo = "fecha"]
    /\ sinCambioEnModulo

\* lines 284-295
Descargar ==
    /\ rpa.pc = "descarga"
    /\ \E ok \in BOOLEAN :
          rpa' = IF ok THEN [rpa EXCEPT !.pc = "procesar"]
                   ELSE [rpa EXCEPT !.pc = "except", !.motivo = "descarga"]
    /\ sinCambioEnModulo

\* lines 298-308: procesar_reporte_con_pandas answers a path or None, never raises
Procesar ==
    /\ rpa.pc = "procesar"
    /\ \E ruta_archivo_final \in {"ruta", "None"}, dialogo \in BOOLEAN :
          rpa' = IF ~dialogo THEN [rpa EXCEPT !.pc = "except", !.motivo = "dialogo"]
                   ELSE IF ruta_archivo_final = "ruta"
                   THEN HaciaFinally([rpa EXCEPT !.proceso_exitoso = TRUE], "seguir", "exito")
                   ELSE HaciaFinally(rpa, "seguir", "procesamiento")
    /\ sinCambioEnModulo

\* lines 310-312: messagebox.showerror may raise in its turn
Except ==
    /\ rpa.pc = "except"
    /\ \E dialogo \in BOOLEAN :
          rpa' = HaciaFinally(rpa, IF dialogo THEN "seguir" ELSE "excepcion", rpa.motivo)
    /\ sinCambioEnModulo

\* a finally block that closes the browser only after a successful run
BloqueFinallySoloExito(f) ==
    Salir([f EXCEPT !.quit = (f.driver # "None" /\ f.proceso_exitoso)],
          IF f.pendiente = "excepcion" THEN "excepcion" ELSE "retorno", f.motivo)

\* lines 314-321
BloqueFinally(f) ==
    Salir([f EXCEPT !.quit = (f.driver # "None")],
          IF f.pendiente = "excepcion" THEN "excepcion" ELSE "retorno", f.motivo)

Finally ==
    /\ rpa.pc = "finally"
    /\ rpa' = BloqueFinally(rpa)
    /\ sinCambioEnModulo

InitFlujo == InitCon(EntornosBase, {<< >>}, BOOLEAN)

NextFlujo ==
    \/ Arranque
    \/ CargarCredenciales
    \/ PrepararDirectorio
    \/ IniciarNavegador
    \/ Login
    \/ ElegirFecha
    \/ Descargar
    \/ Procesar
    \/ Except
    \/ Finally

SpecFlujo == InitFlujo /\ [][NextFlujo]_vars

(***************************************************************************)
(* Properties.                                                             *)
(***************************************************************************)
EsConfigurar == ultima.op = "configurar_logging"

SinksDeArchivo == { i \in 1..Len(handlers) : handlers[i].tipo = "archivo" }
SinksDeConsola == { i \in 1..Len(handlers) : handlers[i].tipo = "consola" }
Avisos(registros) == { i \in 1..Len(registros) : registros[i].nivel = WARNING }

\* C1: idempotence for any two option sets: a call of configurar_logging that follows
\* another one leaves the active log file path as it was, attaches no sink and emits
\* exactly one warning record.
C1_SegundaLlamadaSinEfecto ==
    (EsConfigurar /\ ultima.num >= 2) =>
        /\ _ruta_archivo_log_actual = ultima.antes.ruta
        /\ \A i \in 1..Len(handlers) :
              \E j \in 1..Len(ultima.antes.h) : handlers[i] = ultima.antes.h[j]
        /\ Cardinality(Avisos(ultima.registros)) = 1

\* C2: with the file sink enabled and the logs directory impossible to create (or the
\* log file impossible to open), the call returns normally, the active log file path
\* is None and the console sink, if enabled, is attached.
C2_FalloDeArchivoDegrada ==
    (EsConfigurar /\ ~ultima.guardia /\ ultima.log_a_archivo
       /\ ultima.disco \in {"makedirs", "open"}) =>
        /\ ultima.resultado = "retorno"
        /\ obtener_ruta_archivo_log = None
        /\ ultima.log_a_consola =>
              \E i \in SinksDeConsola : handlers[i].creadoPor = ultima.num

\* C3: no call of configurar_logging propagates a failure to its caller, whatever the
\* options and whichever step fails.
C3_NadaSePropaga == EsConfigurar => ultima.resultado = "retorno"

\* C4: Unconfigured -> Configured and never back: a call that completes leaves the flag
\* set, the flag once set stays set, and at most one call in the process lifetime
\* changes the logger's sinks, the root threshold or the active log file path.
C4_UnaSolaConfiguracion ==
    /\ (EsConfigurar /\ ultima.resultado = "retorno") => _configuracion_realizada
    /\ (ultima.op \in {"configurar_logging", "obtener_ruta_archivo_log"}
          /\ ultima.antes.flag) => _configuracion_realizada
    /\ mutadoras <= 1

\* C5: for every suffix (empty, relative or absolute) get_logs_path(suffix) lies under
\* {write base}/logs and get_data_path(suffix) under {write base}/data.
C5_BajoBaseEscritura ==
    /\ ultima.op = "get_logs_path" =>
          BajoRaiz(ultima.valor, Join(RUTA_BASE_ESCRITURA, <<"logs">>))
    /\ ultima.op = "get_data_path" =>
          BajoRaiz(ultima.valor, Join(RUTA_BASE_ESCRITURA, <<"data">>))

\* C6: run from source, the read base equals the write base whichever tier of the
\* root detection answered; packaged, the read base is the bundle extraction directory
\* and the write base the directory of the executable.
C6_BasesPorModo ==
    /\ ~IS_BUNDLED => RUTA_BASE_LECTURA = RUTA_BASE_ESCRITURA
    /\ IS_BUNDLED => /\ RUTA_BASE_LECTURA = MEIPASS
                     /\ RUTA_BASE_ESCRITURA = Dirname(EJECUTABLE)

\* a source run whose root came from a frame found by walking the stack, queried
C6_Testigo ==
    /\ ~IS_BUNDLED /\ ~entorno.fileDef /\ nivelLectura = "scripts"
    /\ entorno.externos = <<MARCO_SIN, MARCO_MAIN>>
    /\ ultima.op = "get_credentials_path"

\* C7: obtener_ruta_archivo_log() is a path iff a file sink that configurar_logging
\* created is attached, and then it is that sink's path; it is None before any call,
\* with the file sink disabled and after a failed file sink setup; the query returns
\* the recorded value and changes nothing.
C7_RutaSiiSinkArchivo ==
    /\ (obtener_ruta_archivo_log # None) <=>
          (\E i \in SinksDeArchivo : handlers[i].creadoPor >= 1)
    /\ obtener_ruta_archivo_log # None =>
          \E i \in SinksDeArchivo : handlers[i].ruta = obtener_ruta_archivo_log
    /\ llamadas = 0 => obtener_ruta_archivo_log = None
    /\ (EsConfigurar /\ ~ultima.guardia
          /\ (~ultima.log_a_archivo \/ ultima.falla # "no" \/ ultima.resultado = "excepcion"))
          => obtener_ruta_archivo_log = None
    /\ ultima.op = "obtener_ruta_archivo_log" =>
          /\ ultima.valor = _ruta_archivo_log_actual
          /\ ultima.antes = [h |-> handlers, ruta |-> _ruta_archivo_log_actual,
                             flag |-> _configuracion_realizada, raiz |-> nivelRaiz]

\* the query answers a path after a call that attached a file sink
C7_Testigo ==
    /\ ultima.op = "obtener_ruta_archivo_log"
    /\ ultima.valor # None
    /\ SinksDeArchivo # {}

\* C8: when the first call returns, no sink attached before it is still attached,
\* also when closing one of them failed.
C8_NingunViejoQueda ==
    (EsConfigurar /\ ~ultima.guardia /\ ultima.resultado = "retorno") =>
        \A i \in 1..Len(handlers) : handlers[i].creadoPor # 0

\* C9: run from source, a read base that is the working-directory fallback comes with
\* a visible warning.
C9_AvisoEnFallbackCwd ==
    (~IS_BUNDLED /\ nivelLectura = "cwd") => avisosRuta >= 1

\* C10: whatever nombre_archivo_log is, an active log file path is a file directly
\* inside get_logs_path().
C10_LogDentroDeLogs ==
    obtener_ruta_archivo_log # None =>
        DirectamenteEn(obtener_ruta_archivo_log, get_logs_path(VACIA))

\* C13: get_credentials_path() is {base}/config/credenciales.json, base being the
\* directory of the executable (the write base) when the runtime is frozen and has a
\* bundle-extraction directory, and the read base otherwise; the mode found when the
\* module loaded is the mode the call sees.
C13_RutaDeCredenciales ==
    /\ IS_BUNDLED <=> (entorno.frozen /\ entorno.tieneMeipass)
    /\ IS_BUNDLED <=> (nivelLectura = "bundle")
    /\ ultima.op = "get_credentials_path" =>
          /\ (entorno.frozen /\ entorno.tieneMeipass) =>
                /\ ultima.valor = Dirname(EJECUTABLE) \o <<SEP, "config", SEP, "credenciales.json">>
                /\ ultima.valor = RUTA_BASE_ESCRITURA \o <<SEP, "config", SEP, "credenciales.json">>
          /\ ~(entorno.frozen /\ entorno.tieneMeipass) =>
                ultima.valor = RUTA_BASE_LECTURA \o <<SEP, "config", SEP, "credenciales.json">>

\* a packaged run, whose two bases differ, asked for the credentials path
C13_Testigo ==
    /\ entorno.frozen /\ entorno.tieneMeipass
    /\ RUTA_BASE_LECTURA # RUTA_BASE_ESCRITURA
    /\ ultima.op = "get_credentials_path"

C12_FalloReportado ==
    (EsConfigurar /\ ultima.falla # "no") =>
        LET criticos == { i \in 1..Len(ultima.registros) :
                            /\ ultima.registros[i].nivel = CRITICAL
                            /\ ultima.registros[i].destinos # {} }
        IN /\ ultima.resultado = "retorno"
           /\ ultima.impresos >= 1 /\ FlujoDePrint = "stderr"
           /\ (criticos # {}) <=> (SinksDeConsola # {})
           /\ SinksDeArchivo = {}
           /\ _ruta_archivo_log_actual = None

\* C16: once every configurar_logging call made so far has returned, the root logger
\* carries exactly the sinks of the first call's options: one console sink iff
\* log_a_consola was true, one file sink iff the active log file path is set, nothing
\* else.
C16_SinksDeLaPrimeraLlamada ==
    (llamadas >= 1 /\ _configuracion_realizada /\ vigentes.num = 1) =>
        /\ Cardinality(SinksDeConsola) = (IF vigentes.log_a_consola THEN 1 ELSE 0)
        /\ Cardinality(SinksDeArchivo) = (IF _ruta_archivo_log_actual # None THEN 1 ELSE 0)
        /\ Len(handlers) = Cardinality(SinksDeConsola) + Cardinality(SinksDeArchivo)

\* C14: in ejecutar_flujo_rpa, once the driver exists, driver.quit() has been called
\* when the function is left, whichever way it is left (success, login failure, date
\* dialog cancelled, processing failure, any exception); the exits taken before the
\* driver is created (no credentials, download directory not cleaned or created)
\* start no browser.
C14_DriverSiempreCerrado ==
    /\ rpa.navegador => rpa.driver # "None"
    /\ rpa.pc \in {"inicio", "credenciales", "directorio", "navegador"} => ~rpa.navegador
    /\ rpa.pc = "fin" =>
          /\ rpa.driver # "None" => rpa.quit
          /\ rpa.motivo \in {"sin_credenciales", "sin_directorio"} =>
                (~rpa.navegador /\ rpa.driver = "None" /\ rpa.salida = "retorno")

\* the user cancelled the date dialog with the browser open: the function returned
\* and the driver was quit
C14_Testigo ==
    /\ rpa.pc = "fin" /\ rpa.motivo = "cancelado"
    /\ rpa.navegador /\ rpa.quit /\ rpa.salida = "retorno"

\* C15: when the import of config.log_config fails, the script goes on with the
\* emergency logging installed, and ejecutar_flujo_rpa runs without crashing on the
\* path and logging services it no longer has.
C15_FlujoSinLogConfig ==
    (~rpa.importado /\ rpa.pc # "inicio") =>
        /\ \E i \in 1..Len(handlers) : handlers[i].tipo = "basico"
        /\ rpa.pc = "fin" => rpa.motivo # "NameError"

====
